---------------------------- MODULE Spec2Model ----------------------------
(* A model of number_to_midi.py: the number-notation decoder, the           *)
(* pre-creation validator, the clef splitter / sustain merger / track       *)
(* encoder of create_midi_file, the post-creation validator, and the        *)
(* pipeline that main runs over them.                                       *)
(*                                                                          *)
(* Python strings are sequences of one-character strings, Python lists are  *)
(* sequences, dicts that the code mutates in place live in `heap` and are   *)
(* referred to by their index in it.  Python's 0-based index i is kept, and *)
(* At(s, i) reads s[i].                                                     *)
EXTENDS Integers, Sequences, FiniteSets, TLC

VARIABLES pc, input_file, number_content, parsed_events, pre_result,
          heap, treble_events_raw, bass_events_raw,
          final_treble_events, final_bass_events,
          output_file, post_result, calls

vars == <<pc, input_file, number_content, parsed_events, pre_result,
          heap, treble_events_raw, bass_events_raw,
          final_treble_events, final_bass_events,
          output_file, post_result, calls>>

-----------------------------------------------------------------------------
(* Bounds of the model and the sets the inputs are drawn from.              *)

MaxLen == 7

MaxEvents == 4

MaxMsgs == 4

Alphabet == {"/", " ", "1", "3"}

Chords == {<<59>>, <<60>>, <<62, 60>>, <<60, 59, 60>>}

Durations == {1, 2}

MsgTimes == {0, 240}

MsgNotes == {60, 62}

SeqsUpTo(S, n) == UNION {[1..k -> S] : k \in 0..n}

Texts == SeqsUpTo(Alphabet, MaxLen)

DecodedEvent == [notes : Chords, duration : Durations]

EventSeqs == SeqsUpTo(DecodedEvent, MaxEvents)

-----------------------------------------------------------------------------
(* Configuration.                                                           *)

NUMBER_TO_MIDI_MAP ==
    ("1" :> 41) @@ ("2" :> 43) @@ ("3" :> 48) @@ ("4" :> 50) @@ ("5" :> 52) @@
    ("6" :> 53) @@ ("7" :> 55) @@ ("8" :> 57) @@ ("9" :> 58) @@ ("10" :> 59) @@
    ("11" :> 60) @@ ("12" :> 61) @@ ("13" :> 62) @@ ("14" :> 63) @@
    ("15" :> 64) @@ ("16" :> 65) @@ ("17" :> 66) @@ ("18" :> 67) @@
    ("19" :> 68) @@ ("20" :> 69) @@ ("21" :> 70) @@ ("22" :> 71) @@
    ("23" :> 72) @@ ("24" :> 73) @@ ("25" :> 74) @@ ("26" :> 75) @@
    ("27" :> 76) @@ ("28" :> 77) @@ ("29" :> 79) @@ ("30" :> 81)

TICKS_PER_8TH_NOTE == 240

\* The value number_to_midi returns for a token that is not in the table.
None == -1

-----------------------------------------------------------------------------
(* Python's list and str primitives, as the code uses them.                 *)

At(s, i) == s[i + 1]

Last(s) == s[Len(s)]

IsSpace(c) == c = " "

RECURSIVE LStrip(_)
LStrip(s) == IF s # <<>> /\ IsSpace(Head(s)) THEN LStrip(Tail(s)) ELSE s

RECURSIVE RStrip(_)
RStrip(s) ==
    IF s # <<>> /\ IsSpace(Last(s)) THEN RStrip(SubSeq(s, 1, Len(s) - 1)) ELSE s

\* str.strip()
Strip(s) == RStrip(LStrip(s))

\* str.split(d): the pieces between the occurrences of d, empty ones kept.
RECURSIVE Split(_, _)
Split(s, d) ==
    IF \A k \in 1..Len(s) : s[k] # d
    THEN <<s>>
    ELSE LET k == CHOOSE k \in 1..Len(s) :
                      s[k] = d /\ \A m \in 1..(k - 1) : s[m] # d
         IN  <<SubSeq(s, 1, k - 1)>> \o Split(SubSeq(s, k + 1, Len(s)), d)

\* str.split(): the maximal runs of non-whitespace characters.
RECURSIVE SplitWs(_)
SplitWs(s) ==
    LET t == LStrip(s)
    IN  IF t = <<>>
        THEN <<>>
        ELSE LET k == CHOOSE k \in 1..Len(t) :
                          /\ \A m \in 1..k : ~IsSpace(t[m])
                          /\ (k = Len(t) \/ IsSpace(t[k + 1]))
             IN  <<SubSeq(t, 1, k)>> \o SplitWs(SubSeq(t, k + 1, Len(t)))

\* The characters of a Python string as the string that keys the table.
RECURSIVE Key(_)
Key(s) == IF s = <<>> THEN "" ELSE Head(s) \o Key(Tail(s))

-----------------------------------------------------------------------------
(* number_to_midi and parse_number_string.                                  *)

number_to_midi(num_str) ==
    LET k == Key(Strip(num_str))
    IN  IF k \in DOMAIN NUMBER_TO_MIDI_MAP THEN NUMBER_TO_MIDI_MAP[k] ELSE None

\* s = number_string.strip(), a delimiter added at each end that lacks one.
Normalize(number_string) ==
    LET s0 == Strip(number_string)
        s1 == IF s0 # <<>> /\ Head(s0) = "/" THEN s0 ELSE <<"/">> \o s0
    IN  IF Last(s1) = "/" THEN s1 ELSE s1 \o <<"/">>

Slots(number_string) == Split(Normalize(number_string), "/")

\* notes = [number_to_midi(n) for n in slot_content.split()], None dropped.
SlotNotes(slot_content) ==
    LET all == [k \in DOMAIN SplitWs(slot_content) |->
                    number_to_midi(SplitWs(slot_content)[k])]
    IN  SelectSeq(all, LAMBDA n : n # None)

\* The inner while: j after the empty slots that follow, one counted each.
RECURSIVE LookAhead(_, _, _)
LookAhead(slots, j, duration_in_slots) ==
    IF j < Len(slots) - 1 /\ Strip(At(slots, j)) = <<>>
    THEN LookAhead(slots, j + 1, duration_in_slots + 1)
    ELSE [j |-> j, duration_in_slots |-> duration_in_slots]

\* One pass of the outer while at index i: the new i and parsed_events.
ParseSlotNoLookahead(slots, i, events) ==
    LET slot_content == Strip(At(slots, i))
    IN  IF slot_content # <<>>
        THEN LET notes == SlotNotes(slot_content)
             IN  [i |-> i + 1,
                  parsed_events |->
                      IF notes # <<>>
                      THEN Append(events, [notes |-> notes, duration |-> 1])
                      ELSE events]
        ELSE [i |-> i + 1, parsed_events |-> events]

ParseSlot(slots, i, events) ==
    LET slot_content == Strip(At(slots, i))
    IN  IF slot_content # <<>>
        THEN LET notes == SlotNotes(slot_content)
                 la    == LookAhead(slots, i + 1, 1)
             IN  [i |-> la.j,
                  parsed_events |->
                      IF notes # <<>>
                      THEN Append(events, [notes |-> notes,
                                           duration |-> la.duration_in_slots])
                      ELSE events]
        ELSE [i |-> i + 1, parsed_events |-> events]

RECURSIVE ParseLoop(_, _, _)
ParseLoop(slots, i, events) ==
    IF i < Len(slots) - 1
    THEN LET r == ParseSlot(slots, i, events)
         IN  ParseLoop(slots, r.i, r.parsed_events)
    ELSE events

parse_number_string(number_string) == ParseLoop(Slots(number_string), 1, <<>>)

-----------------------------------------------------------------------------
(* validate_events_pre_creation.                                            *)

ToSet(s) == {s[k] : k \in DOMAIN s}

\* The test of the loop body at index i: the pair (i, i+1) breaks the rule.
PairViolatesFirstOnly(events, i) ==
    /\ At(events, i).duration = 1
    /\ ToSet(At(events, i).notes) \cap ToSet(At(events, i + 1).notes) # {}

PairViolates(events, i) ==
    /\ At(events, i).duration = 1
    /\ At(events, i + 1).duration = 1
    /\ ToSet(At(events, i).notes) \cap ToSet(At(events, i + 1).notes) # {}

RECURSIVE PreLoop(_, _)
PreLoop(events, i) ==
    IF i < Len(events) - 1
    THEN IF PairViolates(events, i) THEN FALSE ELSE PreLoop(events, i + 1)
    ELSE TRUE

validate_events_pre_creation(events) == PreLoop(events, 0)

-----------------------------------------------------------------------------
(* create_midi_file: the clef split.                                        *)

NoteOrSustain(notes) == IF notes # <<>> THEN "note" ELSE "sustain"

\* The two raw dicts the loop body builds for one parsed event.
RawTrebleAbove(event) ==
    LET treble_notes == SelectSeq(event.notes, LAMBDA note : note > 60)
    IN  [type |-> NoteOrSustain(treble_notes), notes |-> treble_notes,
         duration |-> event.duration]

RawTreble(event) ==
    LET treble_notes == SelectSeq(event.notes, LAMBDA note : note >= 60)
    IN  [type |-> NoteOrSustain(treble_notes), notes |-> treble_notes,
         duration |-> event.duration]

RawBass(event) ==
    LET bass_notes == SelectSeq(event.notes, LAMBDA note : note < 60)
    IN  [type |-> NoteOrSustain(bass_notes), notes |-> bass_notes,
         duration |-> event.duration]

\* One pass of `for event in parsed_events`: both dicts are allocated in the
\* heap and the two raw lists get a reference each.
SplitStep(st, event) ==
    [heap              |-> st.heap \o <<RawTreble(event), RawBass(event)>>,
     treble_events_raw |-> Append(st.treble_events_raw, Len(st.heap) + 1),
     bass_events_raw   |-> Append(st.bass_events_raw, Len(st.heap) + 2)]

RECURSIVE SplitLoop(_, _, _)
SplitLoop(events, k, st) ==
    IF k < Len(events)
    THEN SplitLoop(events, k + 1, SplitStep(st, At(events, k)))
    ELSE st

SplitEvents(events) ==
    SplitLoop(events, 0,
              [heap |-> <<>>, treble_events_raw |-> <<>>, bass_events_raw |-> <<>>])

-----------------------------------------------------------------------------
(* create_midi_file: merge_sustain_events.  st.heap is the heap, st.merged  *)
(* the list of references built so far, ref the raw event of this pass.     *)

\* merged.append(event) in place of merged.append(event.copy()).
MergeStepNoCopy(st, ref) ==
    LET event == st.heap[ref]
    IN  IF event.type = "note"
        THEN [heap |-> st.heap, merged |-> Append(st.merged, ref)]
        ELSE IF event.type = "sustain"
        THEN IF st.merged # <<>> /\ st.heap[Last(st.merged)].type = "note"
             THEN [heap   |-> [st.heap EXCEPT ![Last(st.merged)].duration =
                                                  @ + event.duration],
                   merged |-> st.merged]
             ELSE [heap   |-> Append(st.heap, [type |-> "rest",
                                               duration |-> event.duration]),
                   merged |-> Append(st.merged, Len(st.heap) + 1)]
        ELSE st

\* A sustain never extends the note before it: it always appends a rest.
MergeStepNoExtend(st, ref) ==
    LET event == st.heap[ref]
    IN  IF event.type = "note"
        THEN [heap   |-> Append(st.heap, event),
              merged |-> Append(st.merged, Len(st.heap) + 1)]
        ELSE IF event.type = "sustain"
        THEN [heap   |-> Append(st.heap, [type |-> "rest",
                                          duration |-> event.duration]),
              merged |-> Append(st.merged, Len(st.heap) + 1)]
        ELSE st

MergeStep(st, ref) ==
    LET event == st.heap[ref]
    IN  IF event.type = "note"
        THEN [heap   |-> Append(st.heap, event),
              merged |-> Append(st.merged, Len(st.heap) + 1)]
        ELSE IF event.type = "sustain"
        THEN IF st.merged # <<>> /\ st.heap[Last(st.merged)].type = "note"
             THEN [heap   |-> [st.heap EXCEPT ![Last(st.merged)].duration =
                                                  @ + event.duration],
                   merged |-> st.merged]
             ELSE [heap   |-> Append(st.heap, [type |-> "rest",
                                               duration |-> event.duration]),
                   merged |-> Append(st.merged, Len(st.heap) + 1)]
        ELSE st

RECURSIVE MergeLoop(_, _, _)
MergeLoop(raw_events, k, st) ==
    IF k < Len(raw_events)
    THEN MergeLoop(raw_events, k + 1, MergeStep(st, At(raw_events, k)))
    ELSE st

merge_sustain_events(h, raw_events) ==
    MergeLoop(raw_events, 0, [heap |-> h, merged |-> <<>>])

\* The dicts a list of references points at.
Deref(h, refs) == [k \in DOMAIN refs |-> h[refs[k]]]

-----------------------------------------------------------------------------
(* create_midi_file: write_track_from_final_events.                         *)

NoteOn(note, time) ==
    [type |-> "note_on", note |-> note, velocity |-> 80, time |-> time]

NoteOff(note, time) ==
    [type |-> "note_off", note |-> note, velocity |-> 80, time |-> time]

SetTempo == [type |-> "set_tempo", time |-> 0]

EndOfTrack == [type |-> "end_of_track", time |-> 0]

\* notes[1:]
Rest1(notes) == SubSeq(notes, 2, Len(notes))

\* One pass of `for event in final_events`; st is the track and pending_delay.
\* pending_delay is never reset to 0.
WriteEventNoReset(st, event) ==
    LET duration_ticks == event.duration * TICKS_PER_8TH_NOTE
    IN  IF event.type = "note"
        THEN LET notes == event.notes
             IN  [track |-> st.track
                      \o <<NoteOn(At(notes, 0), st.pending_delay)>>
                      \o [k \in DOMAIN Rest1(notes) |-> NoteOn(Rest1(notes)[k], 0)]
                      \o <<NoteOff(At(notes, 0), duration_ticks)>>
                      \o [k \in DOMAIN Rest1(notes) |-> NoteOff(Rest1(notes)[k], 0)],
                  pending_delay |-> st.pending_delay]
        ELSE IF event.type = "rest"
        THEN [track |-> st.track,
              pending_delay |-> st.pending_delay + duration_ticks]
        ELSE st

\* Every note_on of a chord carries the pending delay.
WriteEventAllDelayed(st, event) ==
    LET duration_ticks == event.duration * TICKS_PER_8TH_NOTE
    IN  IF event.type = "note"
        THEN LET notes == event.notes
             IN  [track |-> st.track
                      \o <<NoteOn(At(notes, 0), st.pending_delay)>>
                      \o [k \in DOMAIN Rest1(notes) |->
                              NoteOn(Rest1(notes)[k], st.pending_delay)]
                      \o <<NoteOff(At(notes, 0), duration_ticks)>>
                      \o [k \in DOMAIN Rest1(notes) |-> NoteOff(Rest1(notes)[k], 0)],
                  pending_delay |-> 0]
        ELSE IF event.type = "rest"
        THEN [track |-> st.track,
              pending_delay |-> st.pending_delay + duration_ticks]
        ELSE st

\* The note_off delay is the duration in slots, not in ticks.
WriteEventSlots(st, event) ==
    LET duration_ticks == event.duration * TICKS_PER_8TH_NOTE
    IN  IF event.type = "note"
        THEN LET notes == event.notes
             IN  [track |-> st.track
                      \o <<NoteOn(At(notes, 0), st.pending_delay)>>
                      \o [k \in DOMAIN Rest1(notes) |-> NoteOn(Rest1(notes)[k], 0)]
                      \o <<NoteOff(At(notes, 0), event.duration)>>
                      \o [k \in DOMAIN Rest1(notes) |-> NoteOff(Rest1(notes)[k], 0)],
                  pending_delay |-> 0]
        ELSE IF event.type = "rest"
        THEN [track |-> st.track,
              pending_delay |-> st.pending_delay + duration_ticks]
        ELSE st

WriteEvent(st, event) ==
    LET duration_ticks == event.duration * TICKS_PER_8TH_NOTE
    IN  IF event.type = "note"
        THEN LET notes == event.notes
             IN  [track |-> st.track
                      \o <<NoteOn(At(notes, 0), st.pending_delay)>>
                      \o [k \in DOMAIN Rest1(notes) |-> NoteOn(Rest1(notes)[k], 0)]
                      \o <<NoteOff(At(notes, 0), duration_ticks)>>
                      \o [k \in DOMAIN Rest1(notes) |-> NoteOff(Rest1(notes)[k], 0)],
                  pending_delay |-> 0]
        ELSE IF event.type = "rest"
        THEN [track |-> st.track,
              pending_delay |-> st.pending_delay + duration_ticks]
        ELSE st

RECURSIVE WriteLoop(_, _, _)
WriteLoop(final_events, k, st) ==
    IF k < Len(final_events)
    THEN WriteLoop(final_events, k + 1, WriteEvent(st, At(final_events, k)))
    ELSE st

\* The track after the call: what it held before, then the messages appended.
write_track_from_final_events(track, final_events) ==
    WriteLoop(final_events, 0, [track |-> track, pending_delay |-> 0]).track

-----------------------------------------------------------------------------
(* create_midi_file as a whole, and the file mid.save leaves on disk.       *)

\* mido.MidiFile's resolution, which create_midi_file leaves at its default.
ticks_per_beat == 480

\* mid.save writes every track followed by an end_of_track meta message.
Save(tracks) ==
    [ticks_per_beat |-> ticks_per_beat,
     tracks |-> [k \in DOMAIN tracks |-> Append(tracks[k], EndOfTrack)]]

\* Every local of create_midi_file at its return, and the file written.
create_midi_file(events) ==
    LET split  == SplitEvents(events)
        treble == merge_sustain_events(split.heap, split.treble_events_raw)
        bass   == merge_sustain_events(treble.heap, split.bass_events_raw)
        track_treble == write_track_from_final_events(
                            <<SetTempo>>, Deref(bass.heap, treble.merged))
        track_bass   == write_track_from_final_events(
                            <<>>, Deref(bass.heap, bass.merged))
    IN  [heap                |-> bass.heap,
         treble_events_raw   |-> split.treble_events_raw,
         bass_events_raw     |-> split.bass_events_raw,
         final_treble_events |-> treble.merged,
         final_bass_events   |-> bass.merged,
         file                |-> Save(<<track_treble, track_bass>>)]

-----------------------------------------------------------------------------
(* validate_midi_post_creation.  st holds notes_on, last_note_off_time (the *)
(* two dicts, as functions), absolute_time, and whether the loop has        *)
(* returned False.                                                          *)

IsNoteOn(msg) == msg.type = "note_on" /\ msg.velocity > 0

IsNoteOff(msg) ==
    msg.type = "note_off" \/ (msg.type = "note_on" /\ msg.velocity = 0)

Without(dict, key) == [k \in (DOMAIN dict) \ {key} |-> dict[k]]

\* One pass of `for msg in track`.  x < ticks_per_beat / 2 is a comparison of
\* an integer with a float: it is 2 * x < ticks_per_beat.
\* The re-trigger test is <= in place of <.
PostMsgInclusive(st, msg, tpb) ==
    LET absolute_time == st.absolute_time + msg.time
    IN  IF IsNoteOn(msg)
        THEN IF /\ msg.note \in DOMAIN st.last_note_off_time
                /\ 2 * (absolute_time - st.last_note_off_time[msg.note]) <= tpb
             THEN [st EXCEPT !.absolute_time = absolute_time, !.failed = TRUE]
             ELSE [st EXCEPT !.absolute_time = absolute_time,
                             !.notes_on = (msg.note :> absolute_time) @@ @]
        ELSE IF IsNoteOff(msg) /\ msg.note \in DOMAIN st.notes_on
        THEN LET duration == absolute_time - st.notes_on[msg.note]
             IN  [st EXCEPT !.absolute_time = absolute_time,
                            !.last_note_off_time =
                                IF 2 * duration < tpb
                                THEN (msg.note :> absolute_time) @@ @
                                ELSE @,
                            !.notes_on = Without(@, msg.note)]
        ELSE [st EXCEPT !.absolute_time = absolute_time]

PostMsg(st, msg, tpb) ==
    LET absolute_time == st.absolute_time + msg.time
    IN  IF IsNoteOn(msg)
        THEN IF /\ msg.note \in DOMAIN st.last_note_off_time
                /\ 2 * (absolute_time - st.last_note_off_time[msg.note]) < tpb
             THEN [st EXCEPT !.absolute_time = absolute_time, !.failed = TRUE]
             ELSE [st EXCEPT !.absolute_time = absolute_time,
                             !.notes_on = (msg.note :> absolute_time) @@ @]
        ELSE IF IsNoteOff(msg) /\ msg.note \in DOMAIN st.notes_on
        THEN LET duration == absolute_time - st.notes_on[msg.note]
             IN  [st EXCEPT !.absolute_time = absolute_time,
                            !.last_note_off_time =
                                IF 2 * duration < tpb
                                THEN (msg.note :> absolute_time) @@ @
                                ELSE @,
                            !.notes_on = Without(@, msg.note)]
        ELSE [st EXCEPT !.absolute_time = absolute_time]

\* `for msg in track`, left at the first `return False`.
RECURSIVE PostTrackLoop(_, _, _, _)
PostTrackLoop(track, k, st, tpb) ==
    IF k < Len(track) /\ ~st.failed
    THEN PostTrackLoop(track, k + 1, PostMsg(st, At(track, k), tpb), tpb)
    ELSE st

\* One pass of `for track in mid.tracks`: TRUE iff it does not return False.
PostTrackOk(track, tpb) ==
    ~PostTrackLoop(track, 0,
                   [notes_on |-> <<>>, last_note_off_time |-> <<>>,
                    absolute_time |-> 0, failed |-> FALSE], tpb).failed

RECURSIVE PostTracksLoop(_, _, _)
PostTracksLoop(tracks, k, tpb) ==
    IF k < Len(tracks)
    THEN IF PostTrackOk(At(tracks, k), tpb)
         THEN PostTracksLoop(tracks, k + 1, tpb)
         ELSE FALSE
    ELSE TRUE

\* file is what is on disk at filename: <<>> when there is none (mido raises
\* and the except clause returns False), else the one file in a sequence.
validate_midi_post_creation(file) ==
    IF file = <<>>
    THEN FALSE
    ELSE PostTracksLoop(file[1].tracks, 0, file[1].ticks_per_beat)

-----------------------------------------------------------------------------
(* main: one action per call it makes.  pc is the call main is about to     *)
(* make; calls is the history of the calls made.                            *)

Bool(b) == IF b THEN "True" ELSE "False"

\* open(args.input_file).read(), the FileNotFoundError handler and the
\* empty-input return.
ReadInput ==
    /\ pc = "read"
    /\ calls' = Append(calls, "read")
    /\ IF input_file = <<>>
       THEN /\ pc' = "done"
            /\ UNCHANGED number_content
       ELSE /\ number_content' = input_file[1]
            /\ pc' = IF Strip(input_file[1]) = <<>> THEN "done" ELSE "parse"
    /\ UNCHANGED <<input_file, parsed_events, pre_result, heap,
                   treble_events_raw, bass_events_raw, final_treble_events,
                   final_bass_events, output_file, post_result>>

ParseInput ==
    /\ pc = "parse"
    /\ calls' = Append(calls, "parse_number_string")
    /\ parsed_events' = parse_number_string(number_content)
    /\ pc' = "validate_pre"
    /\ UNCHANGED <<input_file, number_content, pre_result, heap,
                   treble_events_raw, bass_events_raw, final_treble_events,
                   final_bass_events, output_file, post_result>>

\* main goes on to create_midi_file whatever the validator returned.
PreValidateNoAbort ==
    /\ pc = "validate_pre"
    /\ calls' = Append(calls, "validate_events_pre_creation")
    /\ pre_result' = Bool(validate_events_pre_creation(parsed_events))
    /\ pc' = "create"
    /\ UNCHANGED <<input_file, number_content, parsed_events, heap,
                   treble_events_raw, bass_events_raw, final_treble_events,
                   final_bass_events, output_file, post_result>>

PreValidate ==
    /\ pc = "validate_pre"
    /\ calls' = Append(calls, "validate_events_pre_creation")
    /\ pre_result' = Bool(validate_events_pre_creation(parsed_events))
    /\ pc' = IF validate_events_pre_creation(parsed_events)
             THEN "create" ELSE "done"
    /\ UNCHANGED <<input_file, number_content, parsed_events, heap,
                   treble_events_raw, bass_events_raw, final_treble_events,
                   final_bass_events, output_file, post_result>>

CreateFile ==
    /\ pc = "create"
    /\ calls' = Append(calls, "create_midi_file")
    /\ LET r == create_midi_file(parsed_events)
       IN  /\ heap' = r.heap
           /\ treble_events_raw' = r.treble_events_raw
           /\ bass_events_raw' = r.bass_events_raw
           /\ final_treble_events' = r.final_treble_events
           /\ final_bass_events' = r.final_bass_events
           /\ output_file' = <<r.file>>
    /\ pc' = "validate_post"
    /\ UNCHANGED <<input_file, number_content, parsed_events, pre_result,
                   post_result>>

PostValidate ==
    /\ pc = "validate_post"
    /\ calls' = Append(calls, "validate_midi_post_creation")
    /\ post_result' = Bool(validate_midi_post_creation(output_file))
    /\ pc' = "done"
    /\ UNCHANGED <<input_file, number_content, parsed_events, pre_result, heap,
                   treble_events_raw, bass_events_raw, final_treble_events,
                   final_bass_events, output_file>>

-----------------------------------------------------------------------------
(* Spec: main on every input file (missing, or any text of the bound).      *)

Init ==
    /\ pc = "read"
    /\ input_file \in {<<>>} \cup {<<t>> : t \in Texts}
    /\ number_content = <<>>
    /\ parsed_events = <<>>
    /\ pre_result = "unset"
    /\ heap = <<>>
    /\ treble_events_raw = <<>>
    /\ bass_events_raw = <<>>
    /\ final_treble_events = <<>>
    /\ final_bass_events = <<>>
    /\ output_file = <<>>
    /\ post_result = "unset"
    /\ calls = <<>>

Next == ReadInput \/ ParseInput \/ PreValidate \/ CreateFile \/ PostValidate

Spec == Init /\ [][Next]_vars

(* SpecParse: parse_number_string on every text of the bound.               *)

InitParse ==
    /\ pc = "parse"
    /\ input_file = <<>>
    /\ number_content \in Texts
    /\ parsed_events = <<>>
    /\ pre_result = "unset"
    /\ heap = <<>>
    /\ treble_events_raw = <<>>
    /\ bass_events_raw = <<>>
    /\ final_treble_events = <<>>
    /\ final_bass_events = <<>>
    /\ output_file = <<>>
    /\ post_result = "unset"
    /\ calls = <<>>

NextParse == ParseInput

SpecParse == InitParse /\ [][NextParse]_vars

(* SpecPre: validate_events_pre_creation on every event list of the bound.  *)

InitPre ==
    /\ pc = "validate_pre"
    /\ input_file = <<>>
    /\ number_content = <<>>
    /\ parsed_events \in EventSeqs
    /\ pre_result = "unset"
    /\ heap = <<>>
    /\ treble_events_raw = <<>>
    /\ bass_events_raw = <<>>
    /\ final_treble_events = <<>>
    /\ final_bass_events = <<>>
    /\ output_file = <<>>
    /\ post_result = "unset"
    /\ calls = <<>>

NextPre == PreValidate

SpecPre == InitPre /\ [][NextPre]_vars

(* SpecCreate: create_midi_file, then the post-validation of its file, on   *)
(* every event list of the bound, the ones pre-validation rejects included. *)

InitCreate ==
    /\ pc = "create"
    /\ input_file = <<>>
    /\ number_content = <<>>
    /\ parsed_events \in EventSeqs
    /\ pre_result = "unset"
    /\ heap = <<>>
    /\ treble_events_raw = <<>>
    /\ bass_events_raw = <<>>
    /\ final_treble_events = <<>>
    /\ final_bass_events = <<>>
    /\ output_file = <<>>
    /\ post_result = "unset"
    /\ calls = <<>>

NextCreate == CreateFile \/ PostValidate

SpecCreate == InitCreate /\ [][NextCreate]_vars

(* SpecPost: validate_midi_post_creation on every two-track file whose      *)
(* tracks hold at most MaxMsgs note messages between them.                  *)

Messages ==
    [type : {"note_on"}, note : MsgNotes, velocity : {0, 80}, time : MsgTimes]
    \cup [type : {"note_off"}, note : MsgNotes, velocity : {80}, time : MsgTimes]

\* The file mido reads back: its resolution and its two tracks.
File(t1, t2) == [ticks_per_beat |-> ticks_per_beat, tracks |-> <<t1, t2>>]

InitPost ==
    /\ pc = "validate_post"
    /\ input_file = <<>>
    /\ number_content = <<>>
    /\ parsed_events = <<>>
    /\ pre_result = "unset"
    /\ heap = <<>>
    /\ treble_events_raw = <<>>
    /\ bass_events_raw = <<>>
    /\ final_treble_events = <<>>
    /\ final_bass_events = <<>>
    /\ \E n1 \in 0..MaxMsgs : \E n2 \in 0..(MaxMsgs - n1) :
          \E t1 \in [1..n1 -> Messages], t2 \in [1..n2 -> Messages] :
              output_file = <<File(t1, t2)>>
    /\ post_result = "unset"
    /\ calls = <<>>

NextPost == PostValidate

SpecPost == InitPost /\ [][NextPost]_vars

-----------------------------------------------------------------------------
(* Vocabulary of the properties.                                            *)

RECURSIVE SumDur(_)
SumDur(events) ==
    IF events = <<>> THEN 0 ELSE Head(events).duration + SumDur(Tail(events))

RECURSIVE Flatten(_)
Flatten(ss) == IF ss = <<>> THEN <<>> ELSE Head(ss) \o Flatten(Tail(ss))

Count(s, x) == Cardinality({k \in DOMAIN s : s[k] = x})

SameBag(a, b) == \A x \in ToSet(a) \cup ToSet(b) : Count(a, x) = Count(b, x)

Called(f) == f \in ToSet(calls)

Created == pc \in {"validate_post", "done"} /\ Called("create_midi_file")

RawTrebleEvents == Deref(heap, treble_events_raw)

RawBassEvents == Deref(heap, bass_events_raw)

FinalTrebleEvents == Deref(heap, final_treble_events)

FinalBassEvents == Deref(heap, final_bass_events)

\* The messages of the written file's tracks: the treble track without its
\* leading set_tempo, and both without the end_of_track that save adds.
WrittenTreble ==
    SubSeq(output_file[1].tracks[1], 2, Len(output_file[1].tracks[1]) - 1)

WrittenBass ==
    SubSeq(output_file[1].tracks[2], 1, Len(output_file[1].tracks[2]) - 1)

-----------------------------------------------------------------------------
\* C1: in main's pipeline the output file is written only after
\* pre-validation has returned true: once validate_events_pre_creation has
\* returned false, create_midi_file is never invoked, no file is written and
\* post-validation is never run.
C1_FileOnlyAfterPreValidation ==
    /\ (output_file # <<>> \/ Called("create_midi_file")) => pre_result = "True"
    /\ pre_result = "False" =>
          /\ ~Called("create_midi_file")
          /\ output_file = <<>>
          /\ ~Called("validate_midi_post_creation")
          /\ post_result = "unset"

C1_Witness ==
    /\ pc = "done"
    /\ pre_result = "False"
    /\ Len(parsed_events) = 2

-----------------------------------------------------------------------------
\* C2: validate_events_pre_creation returns false iff some adjacent pair of
\* events both have duration exactly 1 and share at least one pitch; in all
\* other cases (no pair at all, or a shared pitch where a duration is not 1)
\* it returns true.
AdjacentUnison(events) ==
    \E i \in 1..(Len(events) - 1) :
        /\ events[i].duration = 1
        /\ events[i + 1].duration = 1
        /\ \E p \in ToSet(events[i].notes) : p \in ToSet(events[i + 1].notes)

C2_PreValidationRule ==
    pre_result # "unset" =>
        /\ pre_result = "False" <=> AdjacentUnison(parsed_events)
        /\ pre_result = "True" <=> ~AdjacentUnison(parsed_events)

\* Rejected for its second pair, while the first pair shares a pitch with a
\* duration that is not 1.
C2_Witness ==
    /\ pre_result = "False"
    /\ Len(parsed_events) = 3
    /\ parsed_events[1].duration = 2
    /\ ToSet(parsed_events[1].notes) \cap ToSet(parsed_events[2].notes) # {}

-----------------------------------------------------------------------------
\* C3: parse_number_string emits, in slot order, exactly one event for each
\* non-empty slot that holds at least one valid degree token; its pitches
\* are the table values of its valid tokens in written order, its duration
\* is 1 plus the number of empty slots right after it.  An empty slot counts
\* towards at most one event, one before the first non-empty slot to none.
InnerSlots(number_string) ==
    SubSeq(Slots(number_string), 2, Len(Slots(number_string)) - 1)

IsEmptySlot(slot) == \A k \in DOMAIN slot : slot[k] = " "

ValidTokens(slot) ==
    SelectSeq(SplitWs(slot), LAMBDA t : Key(t) \in DOMAIN NUMBER_TO_MIDI_MAP)

TrailingEmpties(inner, k) ==
    Cardinality({m \in (k + 1)..Len(inner) :
                    \A q \in (k + 1)..m : IsEmptySlot(inner[q])})

PitchedSlots(inner) ==
    SelectSeq([k \in DOMAIN inner |-> k],
              LAMBDA k : ~IsEmptySlot(inner[k]) /\ ValidTokens(inner[k]) # <<>>)

ExpectedEvents(inner) ==
    [n \in DOMAIN PitchedSlots(inner) |->
        LET k == PitchedSlots(inner)[n]
        IN  [notes    |-> [t \in DOMAIN ValidTokens(inner[k]) |->
                              NUMBER_TO_MIDI_MAP[Key(ValidTokens(inner[k])[t])]],
             duration |-> 1 + TrailingEmpties(inner, k)]]

OwnableEmpties(inner) ==
    {m \in DOMAIN inner :
        /\ IsEmptySlot(inner[m])
        /\ \E k \in 1..(m - 1) : ~IsEmptySlot(inner[k])}

C3_ParseEvents ==
    pc = "validate_pre" =>
        /\ parsed_events = ExpectedEvents(InnerSlots(number_content))
        /\ SumDur(parsed_events) - Len(parsed_events)
              <= Cardinality(OwnableEmpties(InnerSlots(number_content)))

\* A leading empty slot, then a slot whose event absorbs one empty slot, then
\* another event.
C3_Witness ==
    /\ pc = "validate_pre"
    /\ Len(InnerSlots(number_content)) = 4
    /\ IsEmptySlot(InnerSlots(number_content)[1])
    /\ Len(parsed_events) = 2
    /\ parsed_events[1].duration = 2

-----------------------------------------------------------------------------
\* C4: replaying the messages of a written track while summing their delta
\* times gives, for every pitch of every note event k of the merged
\* sequence, a note-on at tick 240 * (sum of the durations of the merged
\* events before k, rests included) and its note-off 240 * (duration of k)
\* later, and no other note-on or note-off.
RECURSIVE AbsTime(_, _)
AbsTime(track, k) == IF k = 0 THEN 0 ELSE AbsTime(track, k - 1) + track[k].time

Replay(track) ==
    LET timed == [k \in DOMAIN track |->
                     [type |-> track[k].type, note |-> track[k].note,
                      at |-> AbsTime(track, k)]]
    IN  SelectSeq(timed, LAMBDA m : m.type \in {"note_on", "note_off"})

ExpectedTimings(final) ==
    Flatten([k \in DOMAIN final |->
        IF final[k].type = "note"
        THEN LET onset == 240 * SumDur(SubSeq(final, 1, k - 1))
             IN  [q \in DOMAIN final[k].notes |->
                     [type |-> "note_on", note |-> final[k].notes[q],
                      at |-> onset]]
                 \o [q \in DOMAIN final[k].notes |->
                     [type |-> "note_off", note |-> final[k].notes[q],
                      at |-> onset + 240 * final[k].duration]]
        ELSE <<>>])

C4_EncoderRoundTrip ==
    Created =>
        /\ SameBag(Replay(WrittenTreble), ExpectedTimings(FinalTrebleEvents))
        /\ SameBag(Replay(WrittenBass), ExpectedTimings(FinalBassEvents))

\* A track that starts with a rest and then holds two notes.
C4_Witness ==
    /\ Created
    /\ Len(FinalTrebleEvents) = 3
    /\ FinalTrebleEvents[1].type = "rest"
    /\ FinalTrebleEvents[2].type = "note"
    /\ FinalTrebleEvents[3].type = "note"

-----------------------------------------------------------------------------
\* C5: validate_midi_post_creation reports failure iff, in some track, a
\* note-on of a pitch p comes less than half a beat after an earlier
\* note-off of p that ended a note held for less than half a beat; each
\* track is judged on its own messages only.
ShortRelease(track, j, tpb) ==
    /\ IsNoteOff(track[j])
    /\ \E i \in 1..(j - 1) :
          /\ IsNoteOn(track[i])
          /\ track[i].note = track[j].note
          /\ \A m \in (i + 1)..(j - 1) : track[m].note # track[j].note
          /\ 2 * (AbsTime(track, j) - AbsTime(track, i)) < tpb

Retrigger(track, tpb) ==
    \E j \in DOMAIN track : \E k \in (j + 1)..Len(track) :
        /\ ShortRelease(track, j, tpb)
        /\ IsNoteOn(track[k])
        /\ track[k].note = track[j].note
        /\ 2 * (AbsTime(track, k) - AbsTime(track, j)) < tpb

C5_PostValidationRule ==
    (post_result # "unset" /\ output_file # <<>>) =>
        (post_result = "False" <=>
            \E n \in DOMAIN output_file[1].tracks :
                Retrigger(output_file[1].tracks[n], output_file[1].ticks_per_beat))

\* The same three messages pass when split over the two tracks and fail when
\* they are in one: here they are in the second track.
C5_Witness ==
    /\ post_result = "False"
    /\ output_file[1].tracks[1] = <<>>
    /\ Len(output_file[1].tracks[2]) = 3

-----------------------------------------------------------------------------
\* C6: the clef split partitions each decoded event's pitches by the
\* threshold 60: the treble subset is exactly the pitches >= 60, the bass
\* subset exactly the pitches < 60, each in written order, every pitch in
\* exactly one of them; both raw sequences have one entry per decoded event,
\* at its index and with its duration, of kind note iff its subset is
\* non-empty.
Above(notes) == SelectSeq(notes, LAMBDA p : p >= 60)

Below(notes) == SelectSeq(notes, LAMBDA p : ~(p >= 60))

C6_ClefSplit ==
    Created =>
        /\ Len(RawTrebleEvents) = Len(parsed_events)
        /\ Len(RawBassEvents) = Len(parsed_events)
        /\ \A k \in DOMAIN parsed_events :
              LET t == RawTrebleEvents[k]
                  b == RawBassEvents[k]
              IN  /\ t.notes = Above(parsed_events[k].notes)
                  /\ b.notes = Below(parsed_events[k].notes)
                  /\ \A p \in ToSet(parsed_events[k].notes) :
                        Count(t.notes, p) + Count(b.notes, p)
                            = Count(parsed_events[k].notes, p)
                  /\ Len(t.notes) + Len(b.notes) = Len(parsed_events[k].notes)
                  /\ t.duration = parsed_events[k].duration
                  /\ b.duration = parsed_events[k].duration
                  /\ t.type = (IF t.notes # <<>> THEN "note" ELSE "sustain")
                  /\ b.type = (IF b.notes # <<>> THEN "note" ELSE "sustain")

\* An event whose chord has a pitch on each side of the threshold, 60 itself
\* among them.
C6_Witness ==
    /\ Created
    /\ \E k \in DOMAIN parsed_events :
          /\ RawTrebleEvents[k].notes = <<60, 60>>
          /\ RawBassEvents[k].notes = <<59>>

-----------------------------------------------------------------------------
\* C7, as stated: the merged sequence holds at most one event of kind rest,
\* it is at index 0, and its duration is the sum of the durations of all raw
\* sustain entries before the first note entry.
LeadingSustains(raw) ==
    SelectSeq([k \in DOMAIN raw |-> k],
              LAMBDA k : \A m \in 1..k : raw[m].type = "sustain")

LeadingSustainDur(raw) ==
    SumDur([n \in DOMAIN LeadingSustains(raw) |-> raw[LeadingSustains(raw)[n]]])

RestIndexes(merged) == {k \in DOMAIN merged : merged[k].type = "rest"}

SingleLeadingRest(raw, merged) ==
    /\ Cardinality(RestIndexes(merged)) <= 1
    /\ \A k \in RestIndexes(merged) :
          k = 1 /\ merged[k].duration = LeadingSustainDur(raw)

C7_SingleRest ==
    Created =>
        /\ SingleLeadingRest(RawTrebleEvents, FinalTrebleEvents)
        /\ SingleLeadingRest(RawBassEvents, FinalBassEvents)

\* C7, amended: the rest events of the merged sequence are its first
\* entries, one for each raw sustain entry before the first note entry, each
\* with that entry's duration, so that together they last as long as those
\* sustain entries; no rest follows a note.
LeadingRests(raw, merged) ==
    /\ RestIndexes(merged) = 1..Len(LeadingSustains(raw))
    /\ \A k \in RestIndexes(merged) : merged[k].duration = raw[k].duration
    /\ SumDur([k \in 1..Len(LeadingSustains(raw)) |-> merged[k]])
          = LeadingSustainDur(raw)

C7_LeadingRests ==
    Created =>
        /\ LeadingRests(RawTrebleEvents, FinalTrebleEvents)
        /\ LeadingRests(RawBassEvents, FinalBassEvents)

\* Two sustain entries before the first note, and one after it.
C7_Witness ==
    /\ Created
    /\ Len(RawBassEvents) = 3
    /\ Len(LeadingSustains(RawBassEvents)) = 2
    /\ Len(FinalBassEvents) = 3

-----------------------------------------------------------------------------
\* C8: for each clef the durations of the merged events sum to the sum of
\* the durations of the decoded events (so both clefs last the same), the
\* merged sequence is never longer than the raw one, and the raw events are
\* what the split made them: the merge has not changed them.
C8_MergePreserves ==
    Created =>
        /\ SumDur(FinalTrebleEvents) = SumDur(parsed_events)
        /\ SumDur(FinalBassEvents) = SumDur(parsed_events)
        /\ Len(FinalTrebleEvents) <= Len(RawTrebleEvents)
        /\ Len(FinalBassEvents) <= Len(RawBassEvents)
        /\ RawTrebleEvents = [k \in DOMAIN parsed_events |->
                                 RawTreble(parsed_events[k])]
        /\ RawBassEvents = [k \in DOMAIN parsed_events |->
                               RawBass(parsed_events[k])]
        /\ SubSeq(heap, 1, 2 * Len(parsed_events)) = SplitEvents(parsed_events).heap

\* A treble note that a following sustain entry has extended.
C8_Witness ==
    /\ Created
    /\ Len(RawTrebleEvents) = 3
    /\ Len(FinalTrebleEvents) = 2
    /\ RawTrebleEvents[1].type = "note"
    /\ RawTrebleEvents[2].type = "sustain"
    /\ FinalTrebleEvents[1].duration
          = RawTrebleEvents[1].duration + RawTrebleEvents[2].duration

-----------------------------------------------------------------------------
\* C9: for each note event with pitches p1..pn the encoder appends exactly
\* 2n messages in this order: NoteOn p1 with the delay pending from the rests
\* since the previous note, NoteOn p2..pn with delay 0, NoteOff p1 with delay
\* duration * 240, NoteOff p2..pn with delay 0; a rest appends no message and
\* only adds duration * 240 to the pending delay.
PendingBefore(final, k) ==
    LET prev == {m \in 1..(k - 1) : final[m].type = "note"}
        from == IF prev = {} THEN 1
                ELSE 1 + CHOOSE m \in prev : \A q \in prev : q <= m
    IN  240 * SumDur(SubSeq(final, from, k - 1))

ExpectedMessages(final) ==
    Flatten([k \in DOMAIN final |->
        IF final[k].type = "note"
        THEN LET n == Len(final[k].notes)
             IN  [q \in 1..(2 * n) |->
                     IF q = 1
                     THEN [type |-> "note_on", note |-> final[k].notes[1],
                           velocity |-> 80, time |-> PendingBefore(final, k)]
                     ELSE IF q <= n
                     THEN [type |-> "note_on", note |-> final[k].notes[q],
                           velocity |-> 80, time |-> 0]
                     ELSE IF q = n + 1
                     THEN [type |-> "note_off", note |-> final[k].notes[1],
                           velocity |-> 80, time |-> 240 * final[k].duration]
                     ELSE [type |-> "note_off", note |-> final[k].notes[q - n],
                           velocity |-> 80, time |-> 0]]
        ELSE <<>>])

C9_MessageOrder ==
    Created =>
        /\ WrittenTreble = ExpectedMessages(FinalTrebleEvents)
        /\ WrittenBass = ExpectedMessages(FinalBassEvents)

\* A rest and then a chord of two pitches.
C9_Witness ==
    /\ Created
    /\ Len(FinalTrebleEvents) = 2
    /\ FinalTrebleEvents[1].type = "rest"
    /\ FinalTrebleEvents[2].type = "note"
    /\ Len(FinalTrebleEvents[2].notes) = 2
    /\ Len(WrittenTreble) = 4

-----------------------------------------------------------------------------
\* C10: the two tracks create_midi_file writes always pass
\* validate_midi_post_creation, also for event lists that pre-validation
\* rejects and for chords that repeat a pitch.
C10_CreatedFilePasses ==
    /\ post_result \in {"unset", "True"}
    /\ pc = "done" => post_result = "True"

C10_Witness ==
    /\ pc = "done"
    /\ post_result = "True"
    /\ AdjacentUnison(parsed_events)
    /\ \E k \in DOMAIN parsed_events : parsed_events[k].notes = <<60, 59, 60>>

=============================================================================
